---------------------------- MODULE Spec2Model ----------------------------
(***************************************************************************)
(* The counter application: the counter service of app/counter.py          *)
(* (get_counter, increment_counter, decrement_counter, reset_counter) over *)
(* the "counters" table of app/models.py, and the /counter page whose      *)
(* handlers call it.                                                       *)
(*                                                                         *)
(* Every call runs in a session of its own, as the page's handlers open    *)
(* it (`with Session(engine)`), and several calls may be in flight at      *)
(* once.  Each statement that talks to the database is one step, and sees  *)
(* the committed table (READ COMMITTED).  A session keeps the Counter      *)
(* object it loaded; commit() expires it, so the next attribute read loads *)
(* the row again.  Counter.value is a Python int stored in an INTEGER      *)
(* column; the values reached here are far inside the column's range.      *)
(***************************************************************************)
EXTENDS Integers, Sequences, FiniteSets, TLC

\* Bounds of the model.
MaxCalls  == 2      \* service calls started in one behaviour
MaxSeeds  == 1      \* rows a test inserts directly
MaxFaults == 1      \* persistence steps that fail

Sessions == {"s1", "s2"}
\* The sessions a browser page opens; the others are opened by direct callers.
Clients == {"s1"}
\* "default" is the page's counter; "Default" differs from it in case only.
Names == {"default", "Default"}
\* The large value of the edge-case test; the tests pre-seed rows with it and
\* with its negative.
Large == 999999
SeedValues == {Large, -Large}
Ops == {"get_counter", "increment_counter", "decrement_counter", "reset_counter"}
Mutators == {"increment_counter", "decrement_counter", "reset_counter"}

None == "none"

VARIABLES
    counters,  \* the counters table: a set of rows [id, name, value]
    nextId,    \* the next primary key the table hands out
    pc,        \* each session's position in its call
    op,        \* the service function the session is running
    name,      \* its name argument
    via,       \* who called: "api", "load" (page load) or "click"
    loaded,    \* the Counter object in the session: [id, value], or None;
               \* value is the attribute as the session holds it in memory
    result,    \* what the call returned: a row (get_counter) or an integer
    err,       \* the exception the call raised, or None
    page,      \* the /counter page of the client: "closed", "building", "open"
    count_label, \* the text of the page's count_label
    notice,    \* the last ui.notify message
    \* history, read by the properties only
    pre,       \* the rows of `name` when the call started
    solo,      \* no other access to `name` overlapped the call so far
    ledger,    \* per name: the value its row was created with and the
               \* increments and decrements that returned, kept while only
               \* these ran on it, one after another
    lastRet,   \* per name: {the value the latest mutation returned}, or {}
    accessed,  \* names get_counter has returned a Counter for
    lastOk,    \* per client: {the result of the page's latest successful
               \* call}, or {}
    seen,      \* {what get_counter loaded in the call: the value, and the
               \* sessions that ran the same operation on the name and held
               \* its row loaded and not yet written at that moment}, or {}
    trips,     \* the persistence round trips the call has made, in order
    calls, seeds, faults

svars == <<counters, nextId>>
cvars == <<pc, op, name, via, loaded, result, err>>
uvars == <<page, count_label, notice>>
hvars == <<pre, solo, ledger, lastRet, accessed, lastOk, seen, trips,
           calls, seeds, faults>>
vars  == <<svars, cvars, uvars, hvars>>

-----------------------------------------------------------------------------
(* str(int), as the handlers apply it before set_text *)

Digit(d) ==
    CASE d = 0 -> "0" [] d = 1 -> "1" [] d = 2 -> "2" [] d = 3 -> "3"
      [] d = 4 -> "4" [] d = 5 -> "5" [] d = 6 -> "6" [] d = 7 -> "7"
      [] d = 8 -> "8" [] d = 9 -> "9"

RECURSIVE StrNat(_)
StrNat(n) == IF n < 10 THEN Digit(n) ELSE StrNat(n \div 10) \o Digit(n % 10)

Str(n) == IF n < 0 THEN "-" \o StrNat(-n) ELSE StrNat(n)

-----------------------------------------------------------------------------
(* The table *)

LowerCI(s) == IF s = "Default" THEN "default" ELSE s

\* A comparison that folds case.
NameEqFold(a, b) == LowerCI(a) = LowerCI(b)

\* Counter.name == name: exact match.
NameEq(a, b) == a = b

RowsOf(rs, n) == {r \in rs : NameEq(r.name, n)}

\* An insert that the table never rejects.
UniqueOKNever(rs, n) == TRUE

\* The unique constraint on name: an insert is accepted only if no row has it.
UniqueOK(rs, n) == \A r \in rs : r.name # n

\* A new counter that starts at 1.
NewCounterOne(id, n) == [id |-> id, name |-> n, value |-> 1]

\* Counter(name=name, value=0), with the primary key the table assigns.
NewCounter(id, n) == [id |-> id, name |-> n, value |-> 0]

\* The value of the row with primary key id (a load by primary key).
ValueOf(rs, id) == (CHOOSE r \in rs : r.id = id).value

\* An increment that adds two.
NewValueIncTwo(o, v) ==
    CASE o = "increment_counter" -> v + 2
      [] o = "decrement_counter" -> v - 1
      [] o = "reset_counter"     -> 0

\* A reset that keeps the value.
NewValueResetKeeps(o, v) ==
    CASE o = "increment_counter" -> v + 1
      [] o = "decrement_counter" -> v - 1
      [] o = "reset_counter"     -> v

\* A decrement that stops at zero.
NewValueFloor(o, v) ==
    CASE o = "increment_counter" -> v + 1
      [] o = "decrement_counter" -> IF v <= 0 THEN 0 ELSE v - 1
      [] o = "reset_counter"     -> 0

\* counter.value += 1, counter.value -= 1, counter.value = 0
NewValue(o, v) ==
    CASE o = "increment_counter" -> v + 1
      [] o = "decrement_counter" -> v - 1
      [] o = "reset_counter"     -> 0

\* A session that keeps its objects after commit makes no round trip to
\* return counter.value.
TripsNoReload(ts, step) == IF step = "ret" THEN ts ELSE Append(ts, step)

\* The round trips of a call after one more: each statement that reaches the
\* database (select, insert and commit, refresh, update and commit, the load
\* of the expired counter.value) is one, named by the step that makes it.
Trips(ts, step) == Append(ts, step)

\* UPDATE counters SET value = v WHERE id = id
Updated(rs, id, v) ==
    {IF r.id = id THEN [r EXCEPT !.value = v] ELSE r : r \in rs}

\* An update that adds the change to the stored value:
\* UPDATE counters SET value = value + (new - old) WHERE id = id
FlushedAtomic(rs, id, old, new) ==
    {IF r.id = id THEN [r EXCEPT !.value = @ + (new - old)] ELSE r : r \in rs}

\* The unit of work flushes an UPDATE only for an attribute whose value
\* differs from the loaded one.
Flushed(rs, id, old, new) == IF new = old THEN rs ELSE Updated(rs, id, new)

-----------------------------------------------------------------------------

InCall(s) == pc[s] \in {"select", "insert", "refresh", "update", "ret"}

Others(s, n) == {t \in Sessions \ {s} : InCall(t) /\ name[t] = n}

\* The ledger of a name: before its row exists, once it was created with
\* value v, and after a reset, an overlap of calls or a failed call.
Unopened == [state |-> "none", start |-> 0, incs |-> 0, decs |-> 0]
Opened(v) == [state |-> "open", start |-> v, incs |-> 0, decs |-> 0]
Tainted == [state |-> "tainted", start |-> 0, incs |-> 0, decs |-> 0]

Init ==
    /\ counters = {}
    /\ nextId = 1
    /\ pc = [s \in Sessions |-> "idle"]
    /\ op = [s \in Sessions |-> None]
    /\ name = [s \in Sessions |-> None]
    /\ via = [s \in Sessions |-> None]
    /\ loaded = [s \in Sessions |-> None]
    /\ result = [s \in Sessions |-> None]
    /\ err = [s \in Sessions |-> None]
    /\ page = [s \in Sessions |-> "closed"]
    /\ count_label = [s \in Sessions |-> None]
    /\ notice = [s \in Sessions |-> None]
    /\ pre = [s \in Sessions |-> {}]
    /\ solo = [s \in Sessions |-> TRUE]
    /\ ledger = [n \in Names |-> Unopened]
    /\ lastRet = [n \in Names |-> {}]
    /\ accessed = {}
    /\ lastOk = [s \in Sessions |-> {}]
    /\ seen = [s \in Sessions |-> {}]
    /\ trips = [s \in Sessions |-> <<>>]
    /\ calls = 0
    /\ seeds = 0
    /\ faults = 0

\* A test inserts a row directly, before it calls the service:
\* session.add(Counter(name=n, value=v)); session.commit().
Seed(n, v) ==
    /\ seeds < MaxSeeds
    /\ calls = 0
    /\ UniqueOK(counters, n)
    /\ counters' = counters \cup {[id |-> nextId, name |-> n, value |-> v]}
    /\ nextId' = nextId + 1
    /\ ledger' = [ledger EXCEPT ![n] = Opened(v)]
    /\ seeds' = seeds + 1
    /\ UNCHANGED <<cvars, uvars, pre, solo, lastRet, accessed, lastOk, seen,
                   trips, calls, faults>>

\* A caller opens a session and calls the service function o(session, n).
Call(s, o, n, v) ==
    /\ pc[s] = "idle"
    /\ calls < MaxCalls
    /\ pc' = [pc EXCEPT ![s] = "select"]
    /\ op' = [op EXCEPT ![s] = o]
    /\ name' = [name EXCEPT ![s] = n]
    /\ via' = [via EXCEPT ![s] = v]
    /\ loaded' = [loaded EXCEPT ![s] = None]
    /\ result' = [result EXCEPT ![s] = None]
    /\ err' = [err EXCEPT ![s] = None]
    /\ pre' = [pre EXCEPT ![s] = RowsOf(counters, n)]
    /\ solo' = [t \in Sessions |->
                  IF t = s THEN Others(s, n) = {}
                  ELSE IF t \in Others(s, n) THEN FALSE ELSE solo[t]]
    /\ ledger' = [ledger EXCEPT ![n] =
                     IF Others(s, n) # {} \/ o = "reset_counter" THEN Tainted
                     ELSE @]
    /\ calls' = calls + 1
    /\ UNCHANGED <<svars, lastRet, accessed, lastOk, seen, trips, seeds,
                   faults>>

\* A direct call of a service function, as the service tests make it.
ApiCall(s) ==
    /\ \E o \in Ops, n \in Names : Call(s, o, n, "api")
    /\ UNCHANGED uvars

\* counter_page(): count_label is built as "0", then load_counter() runs.
CounterPage(s) ==
    /\ Call(s, "get_counter", "default", "load")
    /\ page' = [page EXCEPT ![s] = "building"]
    /\ count_label' = [count_label EXCEPT ![s] = "0"]
    /\ notice' = [notice EXCEPT ![s] = None]

\* A click on +, - or Reset: handle_increment / handle_decrement / handle_reset.
HandleClick(s) ==
    /\ page[s] = "open"
    /\ \E o \in Mutators : Call(s, o, "default", "click")
    /\ UNCHANGED uvars

\* get_counter: return counter.  For a mutator the caller goes on to its
\* own statements; for a direct get_counter call the Counter is the result.
GetCounterReturn(s, c) ==
    /\ loaded' = [loaded EXCEPT ![s] = c]
    /\ accessed' = accessed \cup {name[s]}
    /\ seen' = [seen EXCEPT ![s] =
                   {[value |-> c.value,
                     with |-> {t \in Sessions \ {s} :
                                 /\ pc[t] = "update"
                                 /\ op[t] = op[s] /\ name[t] = name[s]}]}]
    /\ IF op[s] = "get_counter"
       THEN /\ result' = [result EXCEPT ![s] =
                 [id |-> c.id, name |-> name[s], value |-> c.value]]
            /\ pc' = [pc EXCEPT ![s] = "done"]
       ELSE /\ pc' = [pc EXCEPT ![s] = "update"]
            /\ UNCHANGED result

\* get_counter: select(Counter).where(Counter.name == name), .first() of
\* session.exec(statement), and, when a row was found, the return.
GetCounterSelect(s) ==
    /\ pc[s] = "select"
    /\ LET found == RowsOf(counters, name[s]) IN
         IF found = {}
         THEN /\ pc' = [pc EXCEPT ![s] = "insert"]
              /\ UNCHANGED <<loaded, result, accessed, seen>>
         ELSE \E r \in found :
                GetCounterReturn(s, [id |-> r.id, value |-> r.value])
    /\ trips' = [trips EXCEPT ![s] = Trips(@, pc[s])]
    /\ UNCHANGED <<svars, op, name, via, err, uvars, pre, solo, ledger,
                   lastRet, lastOk, calls, seeds, faults>>

\* get_counter: counter = Counter(name=name, value=0); session.add(counter);
\* session.commit().  The table rejects a second row of the same name.
GetCounterInsert(s) ==
    /\ pc[s] = "insert"
    /\ IF UniqueOK(counters, name[s])
       THEN /\ counters' = counters \cup {NewCounter(nextId, name[s])}
            /\ nextId' = nextId + 1
            /\ loaded' = [loaded EXCEPT ![s] =
                   [id |-> nextId, value |-> NewCounter(nextId, name[s]).value]]
            /\ pc' = [pc EXCEPT ![s] = "refresh"]
            /\ ledger' = [ledger EXCEPT ![name[s]] =
                   IF @ = Unopened THEN Opened(NewCounter(nextId, name[s]).value)
                   ELSE @]
            /\ UNCHANGED err
       ELSE /\ pc' = [pc EXCEPT ![s] = "failed"]
            /\ err' = [err EXCEPT ![s] = "IntegrityError"]
            /\ ledger' = [ledger EXCEPT ![name[s]] = Tainted]
            /\ UNCHANGED <<svars, loaded>>
    /\ trips' = [trips EXCEPT ![s] = Trips(@, pc[s])]
    /\ UNCHANGED <<op, name, via, result, uvars, pre, solo, lastRet, accessed,
                   lastOk, seen, calls, seeds, faults>>

\* get_counter: session.refresh(counter), and the return.
GetCounterRefresh(s) ==
    /\ pc[s] = "refresh"
    /\ GetCounterReturn(s, [id |-> loaded[s].id,
                            value |-> ValueOf(counters, loaded[s].id)])
    /\ trips' = [trips EXCEPT ![s] = Trips(@, pc[s])]
    /\ UNCHANGED <<svars, op, name, via, err, uvars, pre, solo, ledger,
                   lastRet, lastOk, calls, seeds, faults>>

\* counter.value += 1 (-= 1, = 0); session.add(counter); session.commit()
MutateCommit(s) ==
    /\ pc[s] = "update"
    /\ LET new == NewValue(op[s], loaded[s].value) IN
         /\ counters' = Flushed(counters, loaded[s].id, loaded[s].value, new)
         /\ loaded' = [loaded EXCEPT ![s].value = new]
    /\ pc' = [pc EXCEPT ![s] = "ret"]
    /\ trips' = [trips EXCEPT ![s] = Trips(@, pc[s])]
    /\ UNCHANGED <<nextId, op, name, via, result, err, uvars, pre, solo,
                   ledger, lastRet, accessed, lastOk, seen, calls, seeds,
                   faults>>

\* A session that does not expire its objects on commit returns the value
\* it holds in memory.
ReturnedStale(s) == loaded[s].value

\* return counter.value: the object was expired by the commit, so the
\* attribute is loaded from the row again.
Returned(s) == ValueOf(counters, loaded[s].id)

ReturnValue(s) ==
    /\ pc[s] = "ret"
    /\ result' = [result EXCEPT ![s] = Returned(s)]
    /\ loaded' = [loaded EXCEPT ![s].value = Returned(s)]
    /\ pc' = [pc EXCEPT ![s] = "done"]
    /\ lastRet' = [lastRet EXCEPT ![name[s]] = {Returned(s)}]
    /\ ledger' = [ledger EXCEPT ![name[s]] =
                     IF @.state # "open" THEN @
                     ELSE IF op[s] = "increment_counter"
                          THEN [@ EXCEPT !.incs = @ + 1]
                          ELSE [@ EXCEPT !.decs = @ + 1]]
    /\ trips' = [trips EXCEPT ![s] = Trips(@, pc[s])]
    /\ UNCHANGED <<svars, op, name, via, err, uvars, pre, solo, accessed,
                   lastOk, seen, calls, seeds, faults>>

\* The persistence round trip the session is about to make fails: the
\* statement or commit has no effect and raises (the exception is named
\* "StorageError" here).
Fault(s) ==
    /\ pc[s] \in {"select", "insert", "refresh", "update", "ret"}
    /\ faults < MaxFaults
    /\ pc' = [pc EXCEPT ![s] = "failed"]
    /\ err' = [err EXCEPT ![s] = "StorageError"]
    /\ ledger' = [ledger EXCEPT ![name[s]] = Tainted]
    /\ faults' = faults + 1
    /\ trips' = [trips EXCEPT ![s] = Trips(@, pc[s])]
    /\ UNCHANGED <<svars, op, name, via, loaded, result, uvars, pre, solo,
                   lastRet, accessed, lastOk, seen, calls, seeds>>

Message(o) ==
    CASE o = "increment_counter" -> "Counter incremented!"
      [] o = "decrement_counter" -> "Counter decremented!"
      [] o = "reset_counter"     -> "Counter reset to 0!"

ErrorMessage(o, e) ==
    CASE o = "increment_counter" -> "Error incrementing counter: " \o e
      [] o = "decrement_counter" -> "Error decrementing counter: " \o e
      [] o = "reset_counter"     -> "Error resetting counter: " \o e

\* A handler that sets count_label back to "0" when its call fails.
LabelAfterClear(old, ok, v) == IF ok THEN Str(v) ELSE "0"

\* count_label after a handler: set_text(str(new_value)) in the try block,
\* nothing in the except block.
LabelAfter(old, ok, v) == IF ok THEN Str(v) ELSE old

\* The caller's code after the service call returned or raised, and the end
\* of its `with Session(engine)` block.
HandlerEnd(s) ==
    /\ pc[s] \in {"done", "failed"}
    /\ pc' = [pc EXCEPT ![s] = "idle"]
    /\ op' = [op EXCEPT ![s] = None]
    /\ name' = [name EXCEPT ![s] = None]
    /\ via' = [via EXCEPT ![s] = None]
    /\ loaded' = [loaded EXCEPT ![s] = None]
    /\ result' = [result EXCEPT ![s] = None]
    /\ err' = [err EXCEPT ![s] = None]
    /\ pre' = [pre EXCEPT ![s] = {}]
    /\ solo' = [solo EXCEPT ![s] = TRUE]
    /\ seen' = [seen EXCEPT ![s] = {}]
    /\ trips' = [trips EXCEPT ![s] = <<>>]
    /\ LET ok == pc[s] = "done" IN
         CASE via[s] = "api" ->
                UNCHANGED <<uvars, lastOk>>
           [] via[s] = "load" ->
                \* load_counter(): count_label.set_text(str(counter.value));
                \* an exception leaves counter_page() and no page is served.
                /\ page' = [page EXCEPT ![s] = IF ok THEN "open" ELSE "closed"]
                /\ count_label' = [count_label EXCEPT ![s] =
                                IF ok THEN Str(result[s].value) ELSE None]
                /\ lastOk' = [lastOk EXCEPT ![s] =
                                IF ok THEN {result[s].value} ELSE {}]
                /\ UNCHANGED notice
           [] via[s] = "click" ->
                /\ count_label' = [count_label EXCEPT ![s] =
                                     LabelAfter(@, ok, result[s])]
                /\ notice' = [notice EXCEPT ![s] =
                                IF ok THEN Message(op[s])
                                ELSE ErrorMessage(op[s], err[s])]
                /\ lastOk' = [lastOk EXCEPT ![s] = IF ok THEN {result[s]} ELSE @]
                /\ UNCHANGED page
    /\ UNCHANGED <<svars, ledger, lastRet, accessed, calls, seeds, faults>>

Next ==
    \/ \E n \in Names, v \in SeedValues : Seed(n, v)
    \/ \E s \in Sessions : ApiCall(s)
    \/ \E s \in Clients : CounterPage(s)
    \/ \E s \in Clients : HandleClick(s)
    \/ \E s \in Sessions : GetCounterSelect(s)
    \/ \E s \in Sessions : GetCounterInsert(s)
    \/ \E s \in Sessions : GetCounterRefresh(s)
    \/ \E s \in Sessions : MutateCommit(s)
    \/ \E s \in Sessions : ReturnValue(s)
    \/ \E s \in Sessions : HandlerEnd(s)

\* The application with the persistence store available.
Spec == Init /\ [][Next]_vars

NextFault ==
    \/ Next
    \/ \E s \in Sessions : Fault(s)

\* The application with persistence round trips that may fail.
FaultSpec == Init /\ [][NextFault]_vars

-----------------------------------------------------------------------------
(* Properties *)

\* The value the counter `name` held when the call of s started: 0 for a
\* name with no row yet.
PreValue(s) == IF pre[s] = {} THEN 0 ELSE (CHOOSE r \in pre[s] : TRUE).value

\* The rows of the table rs whose name is exactly n.
Named(rs, n) == {r \in rs : r.name = n}

\* Session s takes a step of its call.
Steps(s) == InCall(s) /\ pc'[s] # pc[s]

\* The increment, decrement or reset that s runs returns in this step.
Returns(s) == pc[s] = "ret" /\ pc'[s] = "done"

\* No increment, decrement or reset on n is in flight.
Quiet(n) == \A t \in Sessions : ~(InCall(t) /\ name[t] = n /\ op[t] \in Mutators)

\* C1: an increment (decrement) that no other access to its name overlaps
\* returns the value before the call plus 1 (minus 1), and after any sequence
\* of such calls on a name, run one after another, the stored value is the
\* value the row started with plus the increments minus the decrements.
C1_AlgebraicSum ==
    [][\A s \in Sessions :
         /\ Returns(s) /\ solo[s]
         /\ op[s] \in {"increment_counter", "decrement_counter"}
         =>
           /\ result'[s] = PreValue(s)
                              + (IF op[s] = "increment_counter" THEN 1 ELSE -1)
           /\ LET l == ledger'[name[s]] IN
                l.state = "open" =>
                  {r.value : r \in Named(counters', name[s])}
                      = {l.start + l.incs - l.decs}]_vars

C1_Witness ==
    \E s \in Sessions :
        /\ pc[s] = "done" /\ op[s] = "decrement_counter" /\ solo[s]
        /\ LET l == ledger[name[s]] IN
             /\ l.state = "open" /\ l.start = Large
             /\ l.incs = 1 /\ l.decs = 1
             /\ result[s] = Large
             /\ PreValue(s) = Large + 1

\* C2: a reset that no other access to its name overlaps returns 0 and
\* leaves the row of its name holding 0, whatever the counter held before:
\* a positive value, a negative one, zero, or no row at all.
C2_ResetToZero ==
    [][\A s \in Sessions :
         Returns(s) /\ solo[s] /\ op[s] = "reset_counter" =>
           /\ result'[s] = 0
           /\ {r.value : r \in Named(counters', name[s])} = {0}]_vars

C2_Witness ==
    \E s, t \in Sessions :
        /\ pc[s] = "done" /\ op[s] = "reset_counter" /\ solo[s]
        /\ pre[s] = {} /\ result[s] = 0
        /\ pc[t] = "done" /\ op[t] = "reset_counter" /\ solo[t]
        /\ pre[t] # {} /\ PreValue(t) < 0 /\ result[t] = 0
        /\ \A r \in counters : r.value = 0

\* C3: every step of a get_counter call leaves the table as it is when the
\* name has a row, and otherwise adds at most one row, of that name and with
\* value 0; a get_counter call that no other access to its name overlaps
\* returns the one row of that name: the row that was there when the call
\* started, unchanged, or a new row with value 0.
C3_GetOrCreate ==
    [][\A s \in Sessions :
         Steps(s) /\ op[s] = "get_counter" =>
           /\ IF Named(counters, name[s]) # {}
              THEN counters' = counters
              ELSE \/ counters' = counters
                   \/ \E r \in counters' \ counters :
                        /\ counters' = counters \cup {r}
                        /\ r.name = name[s] /\ r.value = 0
                        /\ \A q \in counters : q.id # r.id
           /\ pc'[s] = "done" /\ solo[s] =>
                /\ Named(counters', name[s]) = {result'[s]}
                /\ IF pre[s] = {} THEN result'[s].value = 0
                   ELSE pre[s] = {result'[s]}]_vars

C3_Witness ==
    \E s, t \in Sessions :
        /\ pc[s] = "done" /\ op[s] = "get_counter" /\ solo[s] /\ pre[s] = {}
        /\ result[s].value = 0
        /\ pc[t] = "done" /\ op[t] = "get_counter" /\ solo[t]
        /\ pre[t] = {result[s]}
        /\ result[t] = result[s]
        /\ counters = {result[s]}

\* C4: a step of a call on name a leaves the rows of every other name b as
\* they are, where names that differ only in letter case are different names.
C4_OtherNamesUntouched ==
    [][\A s \in Sessions :
         Steps(s) =>
           \A b \in Names \ {name[s]} :
              Named(counters', b) = Named(counters, b)]_vars

C4_Witness ==
    \E r1, r2 \in counters :
        /\ r1.name = "default" /\ r2.name = "Default"
        /\ r1.id # r2.id
        /\ r1.value = 1 /\ r2.value = Large + 1
        /\ \E s \in Sessions :
             pc[s] = "done" /\ op[s] = "increment_counter" /\ result[s] = 1

\* C5: while no mutation of a name is in flight, its row holds the value the
\* latest successful mutation of that name returned, and a get_counter call
\* that selects the row then, in its own session, returns that value.
C5_Persisted ==
    /\ [](\A n \in Names :
            Quiet(n) /\ lastRet[n] # {} =>
              {r.value : r \in Named(counters, n)} = lastRet[n])
    /\ [][\A s \in Sessions :
            /\ op[s] = "get_counter" /\ pc[s] = "select" /\ pc'[s] = "done"
            /\ Quiet(name[s]) /\ lastRet[name[s]] # {}
            => {result'[s].value} = lastRet[name[s]]]_vars

C5_Witness ==
    \E s, t \in Sessions :
        /\ s # t
        /\ pc[t] = "done" /\ op[t] = "decrement_counter" /\ result[t] = -1
        /\ pc[s] = "done" /\ op[s] = "get_counter" /\ name[s] = name[t]
        /\ {result[s].value} = lastRet[name[s]]
        /\ result[s].value = -1

\* C6: the table never holds two rows of one name, and it holds one for
\* every name get_counter has returned a Counter for; this stays so when two
\* callers race on a name that has no row, since the second insert is
\* rejected.
C6_OneRowPerName ==
    \A n \in Names :
        /\ Cardinality(Named(counters, n)) <= 1
        /\ n \in accessed => Cardinality(Named(counters, n)) = 1

C6_Witness ==
    \E s, t \in Sessions :
        /\ pc[s] = "failed" /\ err[s] = "IntegrityError" /\ pre[s] = {}
        /\ name[t] = name[s] /\ pre[t] = {} /\ pc[t] = "done"
        /\ Cardinality(Named(counters, name[s])) = 1

\* C7 (as claimed): with the store available no get_counter call raises,
\* under any interleaving.
C7_GetNeverRaises ==
    \A s \in Sessions : op[s] = "get_counter" => pc[s] # "failed"

\* C8 (as claimed): when an increment, decrement or reset that no other
\* access to its name overlaps fails, the rows of its name are those the
\* table held when the call started.
C8_AllOrNothing ==
    [][\A s \in Sessions :
         /\ InCall(s) /\ pc'[s] = "failed"
         /\ op[s] \in Mutators /\ solo[s]
         => Named(counters', name[s]) = pre[s]]_vars

\* The messages a handler shows when its call fails.
ErrorMessages == {ErrorMessage(o, e) : o \in Mutators,
                                       e \in {"StorageError", "IntegrityError"}}

\* C9: count_label of an open /counter page shows the result of the page's
\* latest successful store call: the value get_counter("default") returned
\* at page load, then the value each successful click returned, with its
\* success message; a click whose call fails leaves count_label as it is
\* and shows an error message.
C9_Displayed ==
    /\ [](\A s \in Clients :
            page[s] = "open" =>
              /\ lastOk[s] # {}
              /\ {count_label[s]} = {Str(v) : v \in lastOk[s]})
    /\ [][\A s \in Clients :
            pc[s] \in {"done", "failed"} /\ pc'[s] = "idle" =>
              CASE via[s] = "load" /\ pc[s] = "done" ->
                     /\ page'[s] = "open"
                     /\ name[s] = "default"
                     /\ count_label'[s] = Str(result[s].value)
                [] via[s] = "click" /\ pc[s] = "done" ->
                     /\ count_label'[s] = Str(result[s])
                     /\ notice'[s] = Message(op[s])
                [] via[s] = "click" /\ pc[s] = "failed" ->
                     /\ count_label'[s] = count_label[s]
                     /\ notice'[s] \in ErrorMessages
                     /\ notice'[s] # Message(op[s])
                [] OTHER -> TRUE]_vars

C9_Witness ==
    \E s \in Clients :
        /\ page[s] = "open" /\ pc[s] = "idle"
        /\ notice[s] = ErrorMessage("increment_counter", "StorageError")
        /\ lastOk[s] = {Large}
        /\ count_label[s] = "999999"
        /\ \E r \in counters : r.name = "default" /\ r.value = Large + 1

\* C10: the k-th of k decrements, run one after another on a counter that
\* was created at 0, returns -k; an increment of a counter holding Large
\* returns Large + 1 and a decrement of one holding -Large returns
\* -Large - 1: no floor, no ceiling, no wraparound.
C10_NoFloorNoCeiling ==
    [][\A s \in Sessions :
         Returns(s) /\ solo[s] =>
           LET l == ledger[name[s]] IN
           /\ /\ op[s] = "decrement_counter"
              /\ l.state = "open" /\ l.start = 0 /\ l.incs = 0
              => result'[s] = -(l.decs + 1)
           /\ op[s] = "increment_counter" /\ PreValue(s) = Large
              => result'[s] = 1000000
           /\ op[s] = "decrement_counter" /\ PreValue(s) = -Large
              => result'[s] = -1000000]_vars

C10_Witness ==
    \E s \in Sessions :
        /\ pc[s] = "done" /\ op[s] = "decrement_counter" /\ solo[s]
        /\ ledger[name[s]] =
             [state |-> "open", start |-> 0, incs |-> 0, decs |-> 2]
        /\ result[s] = -2
        /\ \E r \in counters : r.name = name[s] /\ r.value = -2

\* Sessions s and t run the same increment or decrement on the same name and
\* get_counter loaded the same value v in both before either wrote: t loaded
\* it while s held it loaded and not yet written.
Race(s, t, v) ==
    /\ s # t
    /\ op[s] \in {"increment_counter", "decrement_counter"}
    /\ op[t] = op[s] /\ name[t] = name[s]
    /\ \E a \in seen[s], b \in seen[t] :
          a.value = v /\ b.value = v /\ s \in b.with

\* C11: when two increment_counter (two decrement_counter) calls on one
\* name, each in its own session, both read the same value V before either
\* writes, neither call fails, each returns V + 1 (V - 1), and once both have
\* written the stored value is V + 1 (V - 1), not V + 2 (V - 2): one update
\* is lost.
C11_LostUpdate ==
    \A s, t \in Sessions : \A a \in seen[s] :
        Race(s, t, a.value) =>
          LET w == IF op[s] = "increment_counter" THEN a.value + 1
                                                  ELSE a.value - 1 IN
          /\ pc[s] # "failed" /\ pc[t] # "failed"
          /\ pc[s] = "done" => result[s] = w
          /\ pc[t] = "done" => result[t] = w
          /\ pc[s] \in {"ret", "done"} /\ pc[t] \in {"ret", "done"}
             => \A r \in Named(counters, name[s]) : r.value = w

C11_Witness ==
    /\ Race("s1", "s2", Large)
    /\ op["s1"] = "increment_counter"
    /\ pc["s1"] = "done" /\ pc["s2"] = "done"
    /\ result["s1"] = Large + 1 /\ result["s2"] = Large + 1
    /\ \E r \in counters : r.name = name["s1"] /\ r.value = Large + 1

\* The round trips of a finished call of operation o, which inserted the row
\* (ins) or found it.
Expected(o, ins) ==
    <<"select">> \o (IF ins THEN <<"insert", "refresh">> ELSE <<>>)
                 \o (IF o \in Mutators THEN <<"update", "ret">> ELSE <<>>)

\* C12, as stated: every call of get_counter, increment_counter,
\* decrement_counter and reset_counter has made exactly one persistence round
\* trip when it returns, whether the name existed or not.
C12_OneRoundTrip ==
    \A s \in Sessions : pc[s] = "done" => Len(trips[s]) = 1

\* C12, amended: a call that returns has made one round trip for the select,
\* two more (the insert with its commit, the refresh) when the select found
\* no row, and two more (the commit of the new value, the load of
\* counter.value for the return) when it is an increment, decrement or reset:
\* exactly one only for a get_counter that finds the row. A call that no
\* other access to its name overlaps inserts the row exactly when the name
\* did not exist at its start.
C12_RoundTrips ==
    \A s \in Sessions :
        pc[s] = "done" =>
          \E ins \in BOOLEAN :
              /\ trips[s] = Expected(op[s], ins)
              /\ Len(trips[s]) = 1 <=> op[s] = "get_counter" /\ ~ins
              /\ solo[s] => (ins <=> pre[s] = {})

C12_Witness ==
    \E s, t \in Sessions :
        /\ pc[s] = "done" /\ op[s] = "get_counter"
        /\ solo[s] /\ pre[s] # {} /\ Len(trips[s]) = 1
        /\ pc[t] = "done" /\ op[t] = "increment_counter"
        /\ solo[t] /\ pre[t] = {} /\ Len(trips[t]) = 5

=============================================================================
